---- MODULE Spec2Model ----
(***************************************************************************)
(* Model of the EmailSenderForm component                                  *)
(* (src/components/email-sender-form.tsx): its React state, the two event  *)
(* handlers handleFileUpload and handleSubmit, the requests they leave in  *)
(* flight, and the delivery service answering them.                        *)
(*                                                                         *)
(* Strings are sequences of one-character strings, so that split, trim,    *)
(* toLowerCase, join and the validation pattern are computed, not assumed. *)
(***************************************************************************)
EXTENDS Integers, Sequences, FiniteSets, TLC

VARIABLES
    subject,        \* useState("")                      line 27
    body,           \* useState("")                      line 28
    recipients,     \* useState("")                      line 29
    loading,        \* useState(false)                   line 30
    results,        \* useState<EmailResponse|null>      line 31: <<>> is null, <<r>> a report
    error,          \* useState("")                      line 32
    uploading,      \* useState(false)                   line 33
    duplicateInfo,  \* useState("")                      line 34
    sendReqs,       \* POST /send-emails requests awaiting their response
    uploadReqs,     \* POST /upload-excel requests awaiting their response
    srv,            \* delivery service: SendResults collected for the request being served
    outbox,         \* delivery provider: addresses a transmission was attempted to
    lastOp,         \* the branch the last handler run took
    prevOp          \* lastOp before that

vars == <<subject, body, recipients, loading, results, error, uploading,
          duplicateInfo, sendReqs, uploadReqs, srv, outbox, lastOp, prevOp>>

----------------------------------------------------------------------------
(* Bounds *)

\* lines of recipients text a user types in the form's life cycle
MaxEditLines == 1
\* lines of recipients text given to a single submission
MaxLines == 3
\* rows a spreadsheet import returns
MaxEmails == 2

----------------------------------------------------------------------------
(* Characters and strings *)

NL == "\n"
WhiteSpace == {" ", NL, "\t"}

UpperCase == <<"A", "B", "C", "D", "E", "X">>
LowerCase == <<"a", "b", "c", "d", "e", "x">>

\* String.prototype.toLowerCase, one character
lowerChar(c) ==
    IF \E i \in 1..Len(UpperCase) : UpperCase[i] = c
    THEN LowerCase[CHOOSE i \in 1..Len(UpperCase) : UpperCase[i] = c]
    ELSE c

\* String.prototype.toLowerCase
toLowerCase(s) == [i \in 1..Len(s) |-> lowerChar(s[i])]

RECURSIVE trimStart(_)
trimStart(s) ==
    IF s # <<>> /\ Head(s) \in WhiteSpace THEN trimStart(Tail(s)) ELSE s

RECURSIVE trimEnd(_)
trimEnd(s) ==
    IF s # <<>> /\ s[Len(s)] \in WhiteSpace
    THEN trimEnd(SubSeq(s, 1, Len(s) - 1))
    ELSE s

\* String.prototype.trim
trim(s) == trimEnd(trimStart(s))

\* String.prototype.split(sep) for a one-character separator
RECURSIVE split(_, _)
split(s, sep) ==
    IF \E i \in 1..Len(s) : s[i] = sep
    THEN LET i == CHOOSE k \in 1..Len(s) :
                      s[k] = sep /\ \A m \in 1..(k - 1) : s[m] # sep
         IN  <<SubSeq(s, 1, i - 1)>> \o split(SubSeq(s, i + 1, Len(s)), sep)
    ELSE <<s>>

\* Array.prototype.join(sep)
RECURSIVE join(_, _)
join(list, sep) ==
    IF list = <<>> THEN <<>>
    ELSE IF Len(list) = 1 THEN list[1]
    ELSE list[1] \o sep \o join(Tail(list), sep)

\* String.prototype.endsWith
endsWith(s, suffix) ==
    /\ Len(suffix) <= Len(s)
    /\ SubSeq(s, Len(s) - Len(suffix) + 1, Len(s)) = suffix

\* Array.from(new Set(list)): a Set iterates in insertion order
RECURSIVE arrayFromSet(_)
arrayFromSet(list) ==
    IF list = <<>> THEN <<>>
    ELSE LET init == arrayFromSet(SubSeq(list, 1, Len(list) - 1))
             last == list[Len(list)]
         IN  IF \E i \in 1..Len(init) : init[i] = last
             THEN init
             ELSE Append(init, last)

Range(list) == {list[i] : i \in 1..Len(list)}

----------------------------------------------------------------------------
(* Input alphabets *)

AddrA       == <<"a", "@", "b", ".", "c">>
AddrAUpper  == <<"a", "@", "B", ".", "c">>
AddrAPadded == <<" ", "A", "@", "b", ".", "c", " ">>
AddrC       == <<"c", "@", "d", ".", "e">>
NotAnEmail  == <<"x">>
InnerSpace  == <<"a", " ", "@", "b", ".", "c">>
BlankLine   == <<" ">>

\* lines typed during the form's life cycle
EditLines == {AddrA, NotAnEmail}
\* lines of the text a single submission normalizes
Lines == {AddrA, AddrAUpper, AddrAPadded, AddrC, NotAnEmail, InnerSpace, BlankLine}
\* first-column cells a spreadsheet import returns
Cells == {AddrAUpper, AddrC}

SeqsUpTo(S, n) == UNION {[1..k -> S] : k \in 0..n}

EditTexts   == {join(ls, <<NL>>) : ls \in SeqsUpTo(EditLines, MaxEditLines)}
RawTexts    == {join(ls, <<NL>>) : ls \in SeqsUpTo(Lines, MaxLines)}
EmailLists  == SeqsUpTo(Cells, MaxEmails)

\* subject and body texts: blank after trimming, or not
Texts == {<<" ">>, <<"S">>}

DotXlsx == <<".", "x", "l", "s", "x">>
DotXls  == <<".", "x", "l", "s">>
\* e.target.files: <<>> when no file was chosen, else <<file name>>
FileChoices ==
    { <<>>,
      << <<"f">> \o DotXlsx >>,
      << <<"f">> \o DotXls >>,
      << <<"f", ".", "c", "s", "v">> >>,
      << <<"f">> \o DotXls \o <<".", "t">> >>,
      << <<"f", ".", "X", "L", "S">> >> }

\* the detail field of a non-2xx JSON body; "" stands for an absent or empty one
Details == {"", "Server detail"}

----------------------------------------------------------------------------
(* Messages *)

Msg(text) == [text |-> text, items |-> <<>>]
NoError == Msg("")

MsgExcelOnly     == Msg("Please upload an Excel file (.xlsx or .xls)")
MsgUploadFailed  == Msg("Failed to upload Excel file")
MsgNoRecipients  == Msg("Please enter at least one recipient email address")
MsgNoSubject     == Msg("Please enter a subject")
MsgNoBody        == Msg("Please enter a message")
MsgSendFailed    == Msg("Failed to send emails")
\* `Invalid email addresses: ${invalidEmails.join(", ")}`
MsgInvalid(invalidEmails) ==
    [text |-> "Invalid email addresses: ", items |-> invalidEmails]
\* message of the TypeError fetch rejects with
MsgFetchRejected == Msg("Failed to fetch")
\* message of the error response.json() or data.emails.join throws
MsgBadBody       == Msg("Unexpected response body")

\* errorData.detail || fallback
detailOr(detail, fallback) == IF detail # "" THEN Msg(detail) ELSE fallback

----------------------------------------------------------------------------
(* validateEmail and the normalization steps of handleSubmit *)

\* /^[^\s@]+@[^\s@]+\.[^\s@]+$/.test(email.trim())
validateEmail(email) ==
    LET s == trim(email)
    IN  \E i, j \in 1..Len(s) :
            /\ 1 < i /\ i + 1 < j /\ j < Len(s)
            /\ s[i] = "@"
            /\ s[j] = "."
            /\ \A k \in (1..Len(s)) \ {i} : s[k] \notin (WhiteSpace \cup {"@"})

\* recipients.split("\n").map(trim).filter(length > 0)
recipientListOf(raw) ==
    LET parts   == split(raw, NL)
        trimmed == [i \in 1..Len(parts) |-> trim(parts[i])]
    IN  SelectSeq(trimmed, LAMBDA email : Len(email) > 0)

\* variant: duplicates removed by exact comparison, case kept
uniqueRecipientsCaseKept(recipientList) == arrayFromSet(recipientList)

\* Array.from(new Set(recipientList.map(email => email.toLowerCase())))
uniqueRecipientsOf(recipientList) ==
    arrayFromSet([i \in 1..Len(recipientList) |-> toLowerCase(recipientList[i])])

\* variant: only the first invalid address is reported
invalidEmailsFirstOnly(uniqueRecipients) ==
    LET invalid == SelectSeq(uniqueRecipients, LAMBDA email : ~validateEmail(email))
    IN  IF invalid = <<>> THEN <<>> ELSE <<invalid[1]>>

\* uniqueRecipients.filter((email) => !validateEmail(email))
invalidEmailsOf(uniqueRecipients) ==
    SelectSeq(uniqueRecipients, LAMBDA email : ~validateEmail(email))

\* variant: the subtraction is dropped
removedCountNoSubtraction(recipientList, uniqueRecipients) == Len(recipientList)

\* recipientList.length - uniqueRecipients.length
removedCountOf(recipientList, uniqueRecipients) ==
    Len(recipientList) - Len(uniqueRecipients)

\* `${removedCount} duplicate email address removed`, or ""
duplicateInfoOf(recipientList, uniqueRecipients) ==
    IF Len(recipientList) > Len(uniqueRecipients)
    THEN <<removedCountOf(recipientList, uniqueRecipients),
           " duplicate email address removed">>
    ELSE <<>>

\* variant: the text is not trimmed before the test
isBlankUntrimmed(text) == text = <<>>

\* !text.trim()
isBlank(text) == trim(text) = <<>>

\* the file name test of handleFileUpload
isExcelName(name) == endsWith(name, DotXlsx) \/ endsWith(name, DotXls)

----------------------------------------------------------------------------
(* Component state after construction *)

Init ==
    /\ subject = <<>>
    /\ body = <<>>
    /\ recipients = <<>>
    /\ loading = FALSE
    /\ results = <<>>
    /\ error = NoError
    /\ uploading = FALSE
    /\ duplicateInfo = <<>>
    /\ sendReqs = <<>>
    /\ uploadReqs = <<>>
    /\ srv = <<>>
    /\ outbox = <<>>
    /\ lastOp = "init"
    /\ prevOp = "init"

Op(label) == lastOp' = label /\ prevOp' = lastOp

----------------------------------------------------------------------------
(* Controls: each is usable only while not disabled *)

\* <Input id="subject" disabled={loading}>, <Textarea id="body" disabled={loading}>
TextInputEnabled == ~loading
\* <Textarea id="recipients" disabled={loading || uploading}>
RecipientsInputEnabled == ~(loading \/ uploading)
\* <Input type="file" disabled={loading || uploading}>
FileInputEnabled == ~(loading \/ uploading)
\* variant: the submit button is never disabled
SubmitAlwaysEnabled == TRUE
\* <Button type="submit" disabled={loading}>
SubmitEnabled == ~loading

\* onChange={(e) => setSubject(e.target.value)}
setSubject(text) ==
    /\ TextInputEnabled
    /\ subject' = text
    /\ Op("edit")
    /\ UNCHANGED <<body, recipients, loading, results, error, uploading,
                   duplicateInfo, sendReqs, uploadReqs, srv, outbox>>

\* onChange={(e) => setBody(e.target.value)}
setBody(text) ==
    /\ TextInputEnabled
    /\ body' = text
    /\ Op("edit")
    /\ UNCHANGED <<subject, recipients, loading, results, error, uploading,
                   duplicateInfo, sendReqs, uploadReqs, srv, outbox>>

\* onChange={(e) => setRecipients(e.target.value)}
setRecipients(text) ==
    /\ RecipientsInputEnabled
    /\ recipients' = text
    /\ Op("edit")
    /\ UNCHANGED <<subject, body, loading, results, error, uploading,
                   duplicateInfo, sendReqs, uploadReqs, srv, outbox>>

----------------------------------------------------------------------------
(* handleFileUpload, up to its await of fetch *)

handleFileUpload(files) ==
    /\ FileInputEnabled
    /\ UNCHANGED <<subject, body, recipients, loading, results, duplicateInfo,
                   sendReqs, srv, outbox>>
    /\ IF files = <<>>
       THEN \* if (!file) return;
            /\ Op("upload:noFile")
            /\ UNCHANGED <<error, uploading, uploadReqs>>
       ELSE IF ~isExcelName(files[1])
       THEN /\ error' = MsgExcelOnly
            /\ Op("upload:badExtension")
            /\ UNCHANGED <<uploading, uploadReqs>>
       ELSE /\ uploading' = TRUE
            /\ error' = NoError
            \* atStart records the recipients field as this run found it
            /\ uploadReqs' = Append(uploadReqs,
                                    [file |-> files[1], atStart |-> recipients])
            /\ Op("upload:started")

(* handleFileUpload, from the response on *)

\* variant: an empty import leaves the field as it is
emailListKeptWhenEmpty(emails) ==
    IF emails = <<>> THEN recipients ELSE join(emails, <<NL>>)

\* const emailList = data.emails.join('\n')
emailListOf(emails) == join(emails, <<NL>>)

\* response.ok, data.emails an array: lines 66-69, then finally
uploadOk(emails) ==
    /\ uploadReqs # <<>>
    /\ recipients' = emailListOf(emails)
    /\ error' = NoError
    /\ uploading' = FALSE
    /\ uploadReqs' = Tail(uploadReqs)
    /\ Op(IF emails = <<>> THEN "upload:okEmpty" ELSE "upload:ok")
    /\ UNCHANGED <<subject, body, loading, results, duplicateInfo, sendReqs,
                   srv, outbox>>

\* what the catch block sets, then finally
uploadThrew(message) ==
    /\ uploadReqs # <<>>
    /\ error' = message
    /\ uploading' = FALSE
    /\ uploadReqs' = Tail(uploadReqs)
    /\ Op("upload:failed")
    /\ UNCHANGED <<subject, body, recipients, loading, results, duplicateInfo,
                   sendReqs, srv, outbox>>

\* !response.ok with a JSON body: throw new Error(errorData.detail || ...)
uploadNotOk(detail) == uploadThrew(detailOr(detail, MsgUploadFailed))
\* response.json() throws, or data.emails is no array
uploadBadBody == uploadThrew(MsgBadBody)
\* fetch rejects
uploadFetchRejected == uploadThrew(MsgFetchRejected)

----------------------------------------------------------------------------
(* handleSubmit, up to its await of fetch *)

\* variant: the previous report is not reset on entry
resultsKeptOnSubmit == results

\* setResults(null) on entry
resultsOnSubmit == <<>>

\* JSON.stringify({subject, body, recipients: uniqueRecipients}); form is the
\* state the handler's closure holds
sendRequestOf(uniqueRecipients) ==
    [subject    |-> subject,
     body       |-> body,
     recipients |-> uniqueRecipients,
     form       |-> [subject |-> subject, body |-> body, recipients |-> recipients]]

handleSubmit ==
    /\ SubmitEnabled
    /\ UNCHANGED <<subject, body, recipients, uploading, uploadReqs, srv, outbox>>
    /\ results' = resultsOnSubmit
    /\ LET recipientList    == recipientListOf(recipients)
           uniqueRecipients == uniqueRecipientsOf(recipientList)
           invalidEmails    == invalidEmailsOf(uniqueRecipients)
       IN  IF Len(uniqueRecipients) = 0
           THEN /\ error' = MsgNoRecipients
                /\ duplicateInfo' = <<>>
                /\ Op("submit:noRecipients")
                /\ UNCHANGED <<loading, sendReqs>>
           ELSE IF Len(invalidEmails) > 0
           THEN /\ error' = MsgInvalid(invalidEmails)
                /\ duplicateInfo' = <<>>
                /\ Op("submit:invalid")
                /\ UNCHANGED <<loading, sendReqs>>
           ELSE IF isBlank(subject)
           THEN /\ error' = MsgNoSubject
                /\ duplicateInfo' = duplicateInfoOf(recipientList, uniqueRecipients)
                /\ Op("submit:noSubject")
                /\ UNCHANGED <<loading, sendReqs>>
           ELSE IF isBlank(body)
           THEN /\ error' = MsgNoBody
                /\ duplicateInfo' = duplicateInfoOf(recipientList, uniqueRecipients)
                /\ Op("submit:noBody")
                /\ UNCHANGED <<loading, sendReqs>>
           ELSE /\ error' = NoError
                /\ duplicateInfo' = duplicateInfoOf(recipientList, uniqueRecipients)
                /\ loading' = TRUE
                /\ sendReqs' = Append(sendReqs, sendRequestOf(uniqueRecipients))
                /\ Op("submit:sent")

----------------------------------------------------------------------------
(* The delivery service behind POST /send-emails *)

MsgSent   == "Email sent successfully"
MsgFailed == "Failed: Invalid email address"

\* SendResult of one delivery call
sendResultOf(email, success) ==
    [email |-> email, success |-> success,
     message |-> IF success THEN MsgSent ELSE MsgFailed]

\* the report of a finished send loop
buildReport(sendResults) ==
    LET ok == SelectSeq(sendResults, LAMBDA r : r.success)
    IN  [total      |-> Len(sendResults),
         successful |-> Len(ok),
         failed     |-> Len(sendResults) - Len(ok),
         results    |-> sendResults]

\* variant: the first rejected delivery ends the loop, the recipients after it
\* are reported failed without a delivery call
deliverStopOnFailure(success) ==
    /\ sendReqs # <<>>
    /\ Len(srv) < Len(Head(sendReqs).recipients)
    /\ LET all  == Head(sendReqs).recipients
           to   == all[Len(srv) + 1]
           rest == [i \in 1..(Len(all) - Len(srv) - 1) |->
                        sendResultOf(all[Len(srv) + 1 + i], FALSE)]
       IN  /\ outbox' = Append(outbox, to)
           /\ srv' = IF success
                     THEN Append(srv, sendResultOf(to, TRUE))
                     ELSE Append(srv, sendResultOf(to, FALSE)) \o rest
    /\ UNCHANGED <<subject, body, recipients, loading, results, error, uploading,
                   duplicateInfo, sendReqs, uploadReqs, lastOp, prevOp>>

\* one turn of the send loop: the next recipient's delivery call, which the
\* provider accepts or rejects
deliver(success) ==
    /\ sendReqs # <<>>
    /\ Len(srv) < Len(Head(sendReqs).recipients)
    /\ LET to == Head(sendReqs).recipients[Len(srv) + 1]
       IN  /\ outbox' = Append(outbox, to)
           /\ srv' = Append(srv, sendResultOf(to, success))
    /\ UNCHANGED <<subject, body, recipients, loading, results, error, uploading,
                   duplicateInfo, sendReqs, uploadReqs, lastOp, prevOp>>

----------------------------------------------------------------------------
(* handleSubmit, from the response on *)

\* if (data.successful === data.total)
isFullSuccess(data) == data.successful = data.total

\* response.ok with the report as body: lines 144-151, then finally
sendReport ==
    /\ sendReqs # <<>>
    /\ Len(srv) = Len(Head(sendReqs).recipients)
    /\ LET data == buildReport(srv)
       IN  /\ results' = <<data>>
           /\ IF isFullSuccess(data)
              THEN subject' = <<>> /\ body' = <<>> /\ recipients' = <<>>
              ELSE UNCHANGED <<subject, body, recipients>>
    /\ loading' = FALSE
    /\ sendReqs' = Tail(sendReqs)
    /\ srv' = <<>>
    /\ outbox' = <<>>
    /\ Op("send:report")
    /\ UNCHANGED <<error, uploading, duplicateInfo, uploadReqs>>

\* what the catch block sets, then finally
sendThrew(message) ==
    /\ sendReqs # <<>>
    /\ error' = message
    /\ loading' = FALSE
    /\ sendReqs' = Tail(sendReqs)
    /\ srv' = <<>>
    /\ outbox' = <<>>
    /\ Op("send:failed")
    /\ UNCHANGED <<subject, body, recipients, results, uploading, duplicateInfo,
                   uploadReqs>>

\* !response.ok with a JSON body: throw new Error(errorData.detail || ...)
sendNotOk(detail) == sendThrew(detailOr(detail, MsgSendFailed))
\* response.json() throws
sendBadBody == sendThrew(MsgBadBody)
\* fetch rejects
sendFetchRejected == sendThrew(MsgFetchRejected)

----------------------------------------------------------------------------
(* The form's life cycle *)

Next ==
    \/ \E text \in Texts : setSubject(text)
    \/ \E text \in Texts : setBody(text)
    \/ \E text \in EditTexts : setRecipients(text)
    \/ \E files \in FileChoices : handleFileUpload(files)
    \/ \E emails \in EmailLists : uploadOk(emails)
    \/ \E detail \in Details : uploadNotOk(detail)
    \/ uploadBadBody
    \/ uploadFetchRejected
    \/ handleSubmit
    \/ \E success \in BOOLEAN : deliver(success)
    \/ sendReport
    \/ \E detail \in Details : sendNotOk(detail)
    \/ sendBadBody
    \/ sendFetchRejected

Spec == Init /\ [][Next]_vars

(* One submission of a typed form: the normalization pipeline on every text *)

InitSubmit ==
    /\ subject \in Texts
    /\ body \in Texts
    /\ recipients \in RawTexts
    /\ loading = FALSE
    /\ results = <<>>
    /\ error = NoError
    /\ uploading = FALSE
    /\ duplicateInfo = <<>>
    /\ sendReqs = <<>>
    /\ uploadReqs = <<>>
    /\ srv = <<>>
    /\ outbox = <<>>
    /\ lastOp = "edit"
    /\ prevOp = "edit"

NextSubmit == handleSubmit

SpecSubmit == InitSubmit /\ [][NextSubmit]_vars

----------------------------------------------------------------------------
(* Properties *)

\* the normalized recipient list of a recipients text
Normalized(raw) == uniqueRecipientsOf(recipientListOf(raw))

\* the lines of a text that are non-empty once trimmed, trimmed
NonEmptyLines(raw) ==
    LET parts == split(raw, NL)
    IN  SelectSeq([i \in 1..Len(parts) |-> trim(parts[i])],
                  LAMBDA line : line # <<>>)

NoRepeats(list) ==
    \A i, j \in 1..Len(list) : i # j => list[i] # list[j]

\* a step that takes a response off the wire
SendResponseStep   == sendReqs # <<>> /\ sendReqs' = Tail(sendReqs)
UploadResponseStep == uploadReqs # <<>> /\ uploadReqs' = Tail(uploadReqs)
\* a step that puts a request on the wire
SendRequestStep    == Len(sendReqs') > Len(sendReqs)
UploadRequestStep  == Len(uploadReqs') > Len(uploadReqs)

\* a run of a handler up to its first await; the label it leaves is tested
\* first, which spares evaluating the handler on the steps of the others
SubmitOps == {"submit:noRecipients", "submit:invalid", "submit:noSubject",
              "submit:noBody", "submit:sent"}
FileOps   == {"upload:noFile", "upload:badExtension", "upload:started"}
SubmitRun == lastOp' \in SubmitOps /\ handleSubmit
FileRun(files) == lastOp' \in FileOps /\ handleFileUpload(files)

\* the form passes every input check of a submission
SubmitInputOk ==
    /\ Normalized(recipients) # <<>>
    /\ \A email \in Range(Normalized(recipients)) : validateEmail(email)
    /\ trim(subject) # <<>>
    /\ trim(body) # <<>>

C2_FieldsAfterSendResponse ==
    [][ SendResponseStep =>
          LET form == Head(sendReqs).form
          IN  IF results' # <<>> /\ results'[1].successful = results'[1].total
              THEN subject' = <<>> /\ body' = <<>> /\ recipients' = <<>>
              ELSE /\ subject' = form.subject
                   /\ body' = form.body
                   /\ recipients' = form.recipients
      ]_vars

\* C3: the recipient list of every send request holds only trimmed, non-empty,
\* lower-cased addresses, no two equal; every non-empty line of the text it
\* was made from is there exactly once in its trimmed lower-cased form, and
\* the entries stand in the order of their first occurrence in the text.
C3_RequestListNormalized ==
    \A n \in 1..Len(sendReqs) :
        LET list  == sendReqs[n].recipients
            lines == NonEmptyLines(sendReqs[n].form.recipients)
            key(i) == toLowerCase(lines[i])
            first(email) == CHOOSE i \in 1..Len(lines) :
                                /\ key(i) = email
                                /\ \A m \in 1..(i - 1) : key(m) # email
        IN  /\ \A k \in 1..Len(list) :
                   /\ list[k] # <<>>
                   /\ trim(list[k]) = list[k]
                   /\ \A c \in Range(list[k]) : c \notin Range(UpperCase)
            /\ NoRepeats(list)
            /\ \A i \in 1..Len(lines) :
                   Cardinality({k \in 1..Len(list) : list[k] = key(i)}) = 1
            /\ \A k \in 1..Len(list) : \E i \in 1..Len(lines) : key(i) = list[k]
            /\ \A k, m \in 1..Len(list) : k < m => first(list[k]) < first(list[m])

\* a request made from three non-empty lines, two of them equal up to case
\* and padding, that carries two addresses
C3_Witness ==
    \E n \in 1..Len(sendReqs) :
        /\ Len(NonEmptyLines(sendReqs[n].form.recipients)) = 3
        /\ Len(sendReqs[n].recipients) = 2
        /\ \E c \in Range(sendReqs[n].form.recipients) : c \in Range(UpperCase)

\* the invalid addresses of a recipients text
InvalidOf(raw) == {email \in Range(Normalized(raw)) : ~validateEmail(email)}

\* C4: a submission whose normalized list holds an invalid address sends no
\* request, and its error lists every invalid address of the list, each once,
\* and no valid one.
C4_InvalidRejectsAll ==
    [][ (SubmitRun /\ InvalidOf(recipients) # {}) =>
          /\ ~SendRequestStep
          /\ ~loading'
          /\ error'.text = "Invalid email addresses: "
          /\ Range(error'.items) = InvalidOf(recipients)
          /\ NoRepeats(error'.items)
      ]_vars

\* a rejected submission with two invalid addresses listed and a valid one
\* in the text
C4_Witness ==
    /\ lastOp = "submit:invalid"
    /\ Len(error.items) = 2
    /\ \E email \in Range(Normalized(recipients)) : validateEmail(email)
    /\ sendReqs = <<>>

\* C5: when the report of a send arrives, the provider has been called once
\* for each recipient of the request, in order, whatever the other calls
\* returned; the report holds one SendResult per recipient in request order,
\* total is the number of recipients, successful the number of results with
\* success, failed their difference.
C5_OneResultPerRecipient ==
    [][ (SendResponseStep /\ results' # <<>>) =>
          LET to   == Head(sendReqs).recipients
              data == results'[1]
          IN  /\ outbox = to
              /\ Len(data.results) = Len(to)
              /\ \A i \in 1..Len(to) : data.results[i].email = to[i]
              /\ data.total = Len(to)
              /\ data.successful =
                     Cardinality({i \in 1..Len(to) : data.results[i].success})
              /\ data.failed = data.total - data.successful
      ]_vars

\* a report of two recipients, the first rejected and the second delivered
C5_Witness ==
    /\ lastOp = "send:report"
    /\ results # <<>>
    /\ results[1].total = 2
    /\ ~results[1].results[1].success
    /\ results[1].results[2].success
    /\ results[1].successful = 1 /\ results[1].failed = 1

\* C6: a failed upload leaves the recipients field as it was before the upload
\* started and shows an error; only a successful upload response replaces the
\* field.
C6_FailedUploadKeepsRecipients ==
    [][ (UploadResponseStep /\ lastOp' = "upload:failed") =>
          /\ recipients' = Head(uploadReqs).atStart
          /\ error' # NoError
      ]_vars

\* C7: when a submission ends in a send-level error an error is shown and
\* results is null, whatever report an earlier submission left.
C7_NoReportOnSendError ==
    [][ (SendResponseStep /\ lastOp' = "send:failed") =>
          /\ results' = <<>>
          /\ error'.text # ""
          /\ error'.items = <<>>
      ]_vars

\* a send that ended in the server's detail message, no report shown
C7_Witness ==
    /\ lastOp = "send:failed"
    /\ prevOp = "submit:sent"
    /\ error = Msg("Server detail")
    /\ results = <<>>
    /\ ~loading

\* no edit of the recipients field since an import of zero emails
AfterEmptyImport ==
    \/ lastOp = "upload:okEmpty"
    \/ prevOp = "upload:okEmpty" /\ lastOp \in {"send:report", "send:failed"}

\* C8: a successful import of zero emails leaves the recipients field empty,
\* and a submit made next, the field not edited, fails with the 'no recipients'
\* error and sends nothing.
C8_EmptyImportThenSubmit ==
    [][ /\ (UploadResponseStep /\ lastOp' = "upload:okEmpty") => recipients' = <<>>
        /\ (AfterEmptyImport /\ SubmitRun) =>
              /\ error' = MsgNoRecipients
              /\ ~SendRequestStep
              /\ ~loading'
      ]_vars

\* the submit made right after an import of zero emails
C8_Witness ==
    /\ lastOp = "submit:noRecipients"
    /\ prevOp = "upload:okEmpty"
    /\ recipients = <<>>
    /\ error = MsgNoRecipients
    /\ sendReqs = <<>>

\* the count a duplicateInfo text reports; "" reports none
CountIn(info) == IF info = <<>> THEN 0 ELSE info[1]

\* duplicates removed from a text: non-empty trimmed lines less distinct
\* lower-cased addresses
RemovedFrom(raw) ==
    LET lines == NonEmptyLines(raw)
    IN  Len(lines) - Cardinality({toLowerCase(lines[i]) : i \in 1..Len(lines)})

\* C9 as claimed: every submit reports, in duplicateInfo, the number of
\* non-empty trimmed lines less the number of distinct lower-cased addresses.
C9_CountOnEverySubmit ==
    [][ SubmitRun => CountIn(duplicateInfo') = RemovedFrom(recipients) ]_vars

\* C9: a submit whose normalized list is non-empty and all valid reports that
\* count (as "<count> duplicate email address removed" when it is positive, as
\* the empty text when it is zero); any other submit leaves duplicateInfo empty.
C9_CountWhenAllValid ==
    [][ SubmitRun =>
          IF Normalized(recipients) # <<>> /\ InvalidOf(recipients) = {}
          THEN /\ CountIn(duplicateInfo') = RemovedFrom(recipients)
               /\ RemovedFrom(recipients) > 0 =>
                     duplicateInfo' = <<RemovedFrom(recipients),
                                        " duplicate email address removed">>
               /\ RemovedFrom(recipients) = 0 => duplicateInfo' = <<>>
          ELSE duplicateInfo' = <<>>
      ]_vars

\* the lines a@b.c, a@B.c, c@d.e sent as [a@b.c, c@d.e] with a count of 1
C9_Witness ==
    /\ lastOp = "submit:sent"
    /\ recipients = join(<<AddrA, AddrAUpper, AddrC>>, <<NL>>)
    /\ duplicateInfo # <<>> /\ duplicateInfo[1] = 1
    /\ Len(sendReqs) = 1 /\ sendReqs[1].recipients = <<AddrA, AddrC>>

\* loading is true exactly while one send request is on the wire
OneSendInFlight ==
    /\ Len(sendReqs) <= 1
    /\ loading <=> sendReqs # <<>>

\* C10: at most one send request is in flight and loading is true exactly
\* while it is; while loading is true no submit and no upload starts; every
\* send outcome sets loading back to false, an upload in flight or not.
C10_SingleSendInFlight ==
    [][ /\ OneSendInFlight /\ OneSendInFlight'
        /\ loading => ~SendRequestStep /\ ~UploadRequestStep
        /\ SendResponseStep => ~loading'
      ]_vars

\* a send answered after an upload, started before it, completed during it
C10_Witness ==
    /\ lastOp = "send:report"
    /\ prevOp = "upload:ok"
    /\ ~loading /\ ~uploading
    /\ sendReqs = <<>> /\ uploadReqs = <<>>

====
